---- MODULE Spec2Model ----
(***************************************************************************)
(* A model of the 1brc station-statistics program: the chunked pipeline    *)
(* reader -> chunkChan -> workers -> statsChan -> aggregator -> resultChan *)
(* -> readStats -> eval/format.                                            *)
(*                                                                         *)
(* Bytes are their ASCII codes.  A float64 is modelled exactly: a sign and *)
(* a magnitude counted in units of 2^-56 (the ulp of 0.1), held in three   *)
(* limbs of 24 bits because the checker's integers are 32 bits wide.       *)
(* Every float64 operation rounds its exact result to 53 significant bits, *)
(* ties to even, as IEEE 754 does; in the value range of the program       *)
(* (|x| < 2^12, every value a multiple of 2^-56) that is the whole of the  *)
(* float64 semantics: no overflow, no subnormal, no NaN.                   *)
(***************************************************************************)
EXTENDS Integers, Sequences, FiniteSets, Bags, TLC

(***************************************************************************)
(* Bounds of the model.                                                    *)
(***************************************************************************)
MaxLines == 3
MaxJobs == 3
MinChunk == 4
MaxChunk == 7
MaxReads == 4
MaxCPU == 3
BatchSize == 2

(***************************************************************************)
(* float64                                                                 *)
(***************************************************************************)
Limb == 2^24

RECURSIVE BitLen(_)
BitLen(n) == IF n = 0 THEN 0 ELSE 1 + BitLen(n \div 2)

\* limbs that may have outgrown 24 bits, carried into the next one
MagNorm(h, m, l) ==
    LET m1 == m + (l \div Limb)
    IN  [hi |-> h + (m1 \div Limb), mid |-> m1 % Limb, lo |-> l % Limb]

MagAdd(a, b) == MagNorm(a.hi + b.hi, a.mid + b.mid, a.lo + b.lo)

\* a - b, for a >= b
MagSub(a, b) ==
    LET l0 == a.lo - b.lo
        b0 == IF l0 < 0 THEN 1 ELSE 0
        m0 == a.mid - b.mid - b0
        b1 == IF m0 < 0 THEN 1 ELSE 0
    IN  [hi |-> a.hi - b.hi - b1, mid |-> m0 + b1 * Limb, lo |-> l0 + b0 * Limb]

MagLess(a, b) ==
    \/ a.hi < b.hi
    \/ a.hi = b.hi /\ a.mid < b.mid
    \/ a.hi = b.hi /\ a.mid = b.mid /\ a.lo < b.lo

MagEq(a, b) == a.hi = b.hi /\ a.mid = b.mid /\ a.lo = b.lo

MagZero(a) == a.hi = 0 /\ a.mid = 0 /\ a.lo = 0

MagBits(a) ==
    IF a.hi > 0 THEN 48 + BitLen(a.hi)
    ELSE IF a.mid > 0 THEN 24 + BitLen(a.mid)
    ELSE BitLen(a.lo)

\* The magnitude rounded to 53 significant bits, ties to even; sticky says
\* that the exact value lies strictly above the magnitude given.
MagRound53(a, sticky) ==
    LET d == MagBits(a) - 53
    IN  IF d <= 0 THEN a
        ELSE LET p    == 2^d
                 r    == a.lo % p
                 half == p \div 2
                 odd  == (a.lo \div p) % 2 = 1
                 up   == r > half \/ (r = half /\ (sticky \/ odd))
             IN  MagNorm(a.hi, a.mid, a.lo - r + (IF up THEN p ELSE 0))

Float(neg, a) == [neg |-> neg, hi |-> a.hi, mid |-> a.mid, lo |-> a.lo]

\* float64(i) for an int i, |i| < 2^12: exact
FromInt(i) ==
    Float(i < 0, [hi |-> (IF i < 0 THEN 0 - i ELSE i) * 256, mid |-> 0, lo |-> 0])

FNeg(x) == [x EXCEPT !.neg = ~x.neg]

\* x + y
FAdd(x, y) ==
    IF x.neg = y.neg
    THEN Float(x.neg, MagRound53(MagAdd(x, y), FALSE))
    ELSE IF MagEq(x, y) THEN Float(FALSE, [hi |-> 0, mid |-> 0, lo |-> 0])
    ELSE IF MagLess(x, y)
         THEN Float(y.neg, MagRound53(MagSub(y, x), FALSE))
         ELSE Float(x.neg, MagRound53(MagSub(x, y), FALSE))

\* x / k for an integer-valued divisor 1 <= k < 2^7.  The quotient is taken in
\* quarter units: from 2^-4 up it has 55 bits or more, the remainder is only a
\* sticky bit, and the result is the float64 quotient exactly.  Below 2^-4 a
\* float64 is finer than the unit: there the result keeps the sign, is not
\* zero unless x is, and stays below 2^-4, which is all that round and format
\* read of so small a mean.
FDivSmall(x, k) ==
    LET a4 == MagNorm(x.hi * 4, x.mid * 4, x.lo * 4)
        t1 == (a4.hi % k) * Limb + a4.mid
        t0 == (t1 % k) * Limb + a4.lo
        q  == [hi |-> a4.hi \div k, mid |-> t1 \div k, lo |-> t0 \div k]
        r  == MagRound53(q, t0 % k # 0)
        m  == [hi  |-> r.hi \div 4,
               mid |-> (r.mid \div 4) + (r.hi % 4) * (Limb \div 4),
               lo  |-> (r.lo \div 4) + (r.mid % 4) * (Limb \div 4)]
    IN  IF MagZero(m) /\ ~MagZero(x)
        THEN Float(x.neg, [hi |-> 0, mid |-> 0, lo |-> 1])
        ELSE Float(x.neg, m)

\* x * k for a small integer k
FMulSmall(x, k) == Float(x.neg, MagRound53(MagNorm(x.hi * k, x.mid * k, x.lo * k), FALSE))

\* math.Ceil: the integer part is hi \div 2^8, the rest is the fraction
FCeil(x) ==
    LET int  == x.hi \div 256
        frac == x.hi % 256 # 0 \/ x.mid # 0 \/ x.lo # 0
    IN  Float(x.neg, [hi |-> (IF frac /\ ~x.neg THEN int + 1 ELSE int) * 256,
                      mid |-> 0, lo |-> 0])

\* the order of Go's built-in min and max on float64: numeric, with -0 below +0
FLess(x, y) ==
    IF x.neg # y.neg THEN x.neg
    ELSE IF x.neg THEN MagLess(y, x) ELSE MagLess(x, y)

FMin(x, y) == IF FLess(y, x) THEN y ELSE x
FMax(x, y) == IF FLess(x, y) THEN y ELSE x

(***************************************************************************)
(* Bytes, and the inputs the model runs the program on.                    *)
(***************************************************************************)
NL == 10
Semi == 59
Minus == 45
Zero == 48

\* the lines the input files are made of, without their newline
GoodLines ==
    { <<97, 59, 48, 46, 49>>,            \* a;0.1
      <<97, 59, 48, 46, 52>>,            \* a;0.4
      <<98, 59, 45, 49, 46, 53>> }       \* b;-1.5
BadLines ==
    { <<97, 98, 99>>,                    \* abc    (no delimiter)
      <<97, 59, 49>> }                   \* a;1    (no fraction)
Lines == GoodLines \cup BadLines

RECURSIVE Concat(_)
Concat(ls) == IF ls = <<>> THEN <<>> ELSE Head(ls) \o <<NL>> \o Concat(Tail(ls))

RECURSIVE SeqsUpTo(_, _)
SeqsUpTo(S, n) ==
    IF n = 0 THEN {<<>>}
    ELSE LET shorter == SeqsUpTo(S, n - 1)
         IN  shorter \cup {Append(q, x) : q \in {r \in shorter : Len(r) = n - 1}, x \in S}

\* input files: at most MaxLines lines, of which at most one is malformed; the
\* last line with or without its newline
LineSeqs ==
    {ls \in SeqsUpTo(Lines, MaxLines) :
        Cardinality({i \in 1..Len(ls) : ls[i] \in BadLines}) <= 1}
Files ==
    {Concat(ls) : ls \in LineSeqs}
        \cup {SubSeq(Concat(ls), 1, Len(Concat(ls)) - 1) : ls \in LineSeqs \ {<<>>}}

(***************************************************************************)
(* parseFloat and the worker's scan of one chunk.                          *)
(***************************************************************************)
\* s without its leading '-'
Unsigned(s) == IF s[1] = Minus THEN Tail(s) ELSE s

\* parseFloat indexes s[0], and then s[2], or s[1] and s[3], unchecked: a
\* string too short for that is an index out of range, a run-time panic
parseFloatPanics(s) ==
    \/ Len(s) = 0
    \/ Len(Unsigned(s)) # 3 /\ Len(Unsigned(s)) < 4

\* parseFloat adding the first digit of two as units
parseFloatTensLost(s) ==
    LET t   == Unsigned(s)
        num == IF Len(t) = 3
               THEN FAdd(FromInt(t[1] - Zero), FDivSmall(FromInt(t[3] - Zero), 10))
               ELSE FAdd(FAdd(FromInt(t[1] - Zero), FromInt(t[2] - Zero)),
                         FDivSmall(FromInt(t[4] - Zero), 10))
    IN  IF s[1] = Minus THEN FNeg(num) ELSE num

parseFloat(s) ==
    LET t   == Unsigned(s)
        num == IF Len(t) = 3
               THEN FAdd(FromInt(t[1] - Zero), FDivSmall(FromInt(t[3] - Zero), 10))
               ELSE FAdd(FAdd(FMulSmall(FromInt(t[1] - Zero), 10), FromInt(t[2] - Zero)),
                         FDivSmall(FromInt(t[4] - Zero), 10))
    IN  IF s[1] = Minus THEN FNeg(num) ELSE num

\* the worker's update of its table with one record
Update(st, station, temp) ==
    IF station \in DOMAIN st
    THEN [st EXCEPT ![station] =
             [count |-> @.count + 1,
              sum   |-> FAdd(@.sum, temp),
              min   |-> FMin(@.min, temp),
              max   |-> FMax(@.max, temp)]]
    ELSE [k \in DOMAIN st \cup {station} |->
             IF k = station
             THEN [count |-> 1, sum |-> temp, min |-> temp, max |-> temp]
             ELSE st[k]]

\* The worker's loop over the bytes of a chunk from byte i on; start is where
\* the current field begins and station the last key seen in this chunk.
RECURSIVE Scan(_, _, _, _, _)
Scan(c, i, start, station, st) ==
    IF i > Len(c) THEN [panic |-> FALSE, stats |-> st]
    ELSE IF c[i] = Semi
         THEN Scan(c, i + 1, i + 1, SubSeq(c, start, i - 1), st)
    ELSE IF c[i] = NL
         THEN IF parseFloatPanics(SubSeq(c, start, i - 1))
              THEN [panic |-> TRUE, stats |-> st]
              ELSE Scan(c, i + 1, i + 1, station,
                        Update(st, station, parseFloat(SubSeq(c, start, i - 1))))
    ELSE Scan(c, i + 1, start, station, st)

ProcessChunk(c, st) == Scan(c, 1, 1, <<>>, st)

(***************************************************************************)
(* The aggregator's reduction and the final sort.                          *)
(***************************************************************************)
Combine(val, v) ==
    [count |-> val.count + v.count,
     sum   |-> FAdd(val.sum, v.sum),
     min   |-> FMin(val.min, v.min),
     max   |-> FMax(val.max, v.max)]

\* the body of the aggregator's loop for one partial table
Merge(st, partialStats) ==
    [k \in DOMAIN st \cup DOMAIN partialStats |->
        IF k \in DOMAIN st /\ k \in DOMAIN partialStats THEN Combine(st[k], partialStats[k])
        ELSE IF k \in DOMAIN st THEN st[k]
        ELSE partialStats[k]]

\* stations left in the order of arrival
KeepOrder(ks) == ks

\* byte-wise order of strings, as sort.Strings compares them
RECURSIVE StringLess(_, _)
StringLess(a, b) ==
    IF b = <<>> THEN FALSE
    ELSE IF a = <<>> THEN TRUE
    ELSE IF Head(a) # Head(b) THEN Head(a) < Head(b)
    ELSE StringLess(Tail(a), Tail(b))

SortStrings(ks) == SortSeq(ks, StringLess)

\* every order in which a map iteration may visit the keys K
Orders(K) == {q \in [1..Cardinality(K) -> K] : \A k \in K : \E i \in DOMAIN q : q[i] = k}

(***************************************************************************)
(* The reader's handling of one read.                                      *)
(***************************************************************************)
\* bytes.LastIndex(buf, "\n"), counted from 1; 0 when there is none
LastIndex(buf) ==
    LET S == {i \in 1..Len(buf) : buf[i] = NL}
    IN  IF S = {} THEN 0 ELSE CHOOSE i \in S : \A j \in S : j <= i

\* A regular file gives min(len(readBuf), bytes left) bytes.
NumBytesRead(f, p, len) == IF Len(f) - p < len THEN Len(f) - p ELSE len

SendBuf(left, buf) == left \o SubSeq(buf, 1, LastIndex(buf))
LeftOver(buf) == SubSeq(buf, LastIndex(buf) + 1, Len(buf))

(***************************************************************************)
(* round and format.                                                       *)
(***************************************************************************)
round(f) == FDivSmall(FCeil(FMulSmall(f, 10)), 10)

RECURSIVE Digits(_)
Digits(n) == IF n < 10 THEN <<48 + n>> ELSE Append(Digits(n \div 10), 48 + (n % 10))

\* |x| in tenths, rounded to the nearest, ties to even, as %.1f rounds
Tenths(x) ==
    LET m    == MagNorm(x.hi * 10, x.mid * 10, x.lo * 10)
        t    == m.hi \div 256
        r    == m.hi % 256
        rest == m.mid # 0 \/ m.lo # 0
    IN  IF r > 128 \/ (r = 128 /\ (rest \/ t % 2 = 1)) THEN t + 1 ELSE t

\* fmt.Sprintf("%.1f", x)
Sprintf1(x) ==
    (IF x.neg THEN <<45>> ELSE <<>>)
        \o Digits(Tenths(x) \div 10) \o <<46, 48 + (Tenths(x) % 10)>>

\* the text format writes for the station at place i
Entry(r, i) ==
    LET v == r.stats[r.stations[i]]
    IN  r.stations[i] \o <<61>> \o Sprintf1(v.min) \o <<47>>
            \o Sprintf1(round(FDivSmall(v.sum, v.count))) \o <<47>> \o Sprintf1(v.max)
            \o (IF i < Len(r.stations) THEN <<44, 32>> ELSE <<>>)

RECURSIVE Entries(_, _)
Entries(r, i) == IF i > Len(r.stations) THEN <<>> ELSE Entry(r, i) \o Entries(r, i + 1)

format(r) == <<123>> \o Entries(r, 1) \o <<125, NL>>

(***************************************************************************)
(* The pipeline.  The workers are goroutines without a name, all running   *)
(* the same function on the same two channels: the pool is the bag of      *)
(* their states.                                                           *)
(***************************************************************************)
VARIABLES
    file,            \* the bytes of the file at the input path
    chunkSize,       \* len(readBuf) when reader starts
    jobs,            \* *jobs, the number of workers
    rpc,             \* reader: "open", "read", "send", "closed", "failed"
    pos,             \* reader: the file offset
    readLen,         \* reader: len(readBuf), cut by readBuf = readBuf[:numBytesRead]
    leftOver,        \* reader: leftOver
    sendBuf,         \* reader: the chunk it is sending
    readerErr,       \* reader: the error it returned, "nil" so far
    workers,         \* the bag of the workers' states: pc is "recv" (at range
                     \* chunkChan), "work" (in the loop body), "sent" (past
                     \* statsChan <- stats) or "done" (returned); chunk and
                     \* stats are the worker's locals
    wg,              \* the WaitGroup counter
    statsChanClosed, \* close(statsChan) has run
    apc,             \* aggregator: "recv", "merge", "result", "done"
    partialStats,    \* aggregator: partialStats, the table it received
    stats,           \* aggregator: stats
    stations,        \* aggregator: stations
    mpc,             \* readStats and eval: "wait", "result", "returned", "exit"
    ss,              \* the stationStats readStats returned
    err,             \* the error readStats returned
    output,          \* what eval wrote to w
    crashed,         \* an unrecovered panic has ended the process
    produced,        \* the number of chunks reader has made so far
    finished,        \* the number of chunks the workers have processed so far
    arg,             \* parseFloat alone: its argument s
    ret,             \* parseFloat alone: the value it returned
    fpc,             \* parseFloat alone: "idle", "call", "ret"
    numCPU,          \* main.go: runtime.NumCPU()
    off,             \* main.go: the offset of the bufio.Reader in the file
    batch,           \* main.go: len(batch)
    backing,         \* main.go: the array behind batch, shared with every
                     \* batch sent so far
    lineWorkers      \* main.go: the bag of the workers' states

vars == <<file, chunkSize, jobs, rpc, pos, readLen, leftOver, sendBuf, readerErr,
          workers, wg, statsChanClosed, apc, partialStats, stats, stations,
          mpc, ss, err, output, crashed, produced, finished,
          arg, ret, fpc, numCPU, off, batch, backing, lineWorkers>>

readerVars == <<rpc, pos, readLen, leftOver, sendBuf, readerErr>>
aggVars    == <<apc, partialStats, stats, stations>>
mainVars   == <<mpc, ss, err, output>>
inputVars  == <<file, chunkSize, jobs>>
flightVars == <<produced, finished>>
fnVars     == <<arg, ret, fpc>>
batchVars  == <<numCPU, off, batch, backing, lineWorkers>>

\* the state of the parts of the program that a run does not reach
NoFloat == [neg |-> FALSE, hi |-> 0, mid |-> 0, lo |-> 0]
FnIdle == arg = <<>> /\ ret = NoFloat /\ fpc = "idle"
BatchIdle ==
    /\ numCPU = 0 /\ off = 0 /\ batch = 0 /\ backing = <<>>
    /\ lineWorkers = EmptyBag

EmptyStats == [k \in {} |-> 0]
NoResult == [stats |-> EmptyStats, stations |-> <<>>]

\* a chunk size below the length of a line, and one that holds every line
ChunkSizes == {MinChunk, MaxChunk}

\* the bag B with one copy of u replaced by v
Replace(B, u, v) == (B (-) SetToBag({u})) (+) SetToBag({v})

\* readStats has made the channels and started reader, *jobs workers and
\* aggregator, and is at wg.Wait
Init ==
    /\ file \in Files
    /\ chunkSize \in ChunkSizes
    /\ Len(file) <= MaxReads * chunkSize
    /\ jobs \in 1..MaxJobs
    /\ rpc = "open" /\ pos = 0 /\ readLen = chunkSize
    /\ leftOver = <<>> /\ sendBuf = <<>> /\ readerErr = "nil"
    /\ workers = [u \in {[pc |-> "recv", chunk |-> <<>>, stats |-> EmptyStats]} |-> jobs]
    /\ wg = jobs
    /\ statsChanClosed = FALSE
    /\ apc = "recv" /\ partialStats = EmptyStats /\ stats = EmptyStats /\ stations = <<>>
    /\ mpc = "wait" /\ ss = NoResult /\ err = "nil" /\ output = <<>>
    /\ crashed = FALSE
    /\ produced = 0 /\ finished = 0
    /\ FnIdle /\ BatchIdle

\* reader: os.Open
ReaderOpen ==
    /\ ~crashed /\ rpc = "open"
    /\ \/ rpc' = "read" /\ readerErr' = readerErr
       \/ rpc' = "failed" /\ readerErr' = "could not open file"
    /\ UNCHANGED <<pos, readLen, leftOver, sendBuf>>
    /\ UNCHANGED <<inputVars, workers, wg, statsChanClosed, aggVars, mainVars, crashed>>
    /\ UNCHANGED flightVars
    /\ UNCHANGED <<fnVars, batchVars>>

\* reader: f.Read gives bytes; the chunk is cut at the last newline
ReaderRead ==
    /\ ~crashed /\ rpc = "read"
    /\ NumBytesRead(file, pos, readLen) > 0
    /\ LET n   == NumBytesRead(file, pos, readLen)
           buf == SubSeq(file, pos + 1, pos + n)
       IN  /\ pos' = pos + n
           /\ readLen' = n
           /\ sendBuf' = SendBuf(leftOver, buf)
           /\ leftOver' = LeftOver(buf)
    /\ rpc' = "send"
    /\ UNCHANGED <<readerErr, inputVars, workers, wg, statsChanClosed, aggVars, mainVars, crashed>>
    /\ produced' = produced + 1 /\ finished' = finished
    /\ UNCHANGED <<fnVars, batchVars>>

\* reader: f.Read gives io.EOF; break, close(chunkChan), return nil
ReaderEOF ==
    /\ ~crashed /\ rpc = "read"
    /\ NumBytesRead(file, pos, readLen) = 0
    /\ rpc' = "closed"
    /\ UNCHANGED <<pos, readLen, leftOver, sendBuf, readerErr>>
    /\ UNCHANGED <<inputVars, workers, wg, statsChanClosed, aggVars, mainVars, crashed>>
    /\ UNCHANGED flightVars
    /\ UNCHANGED <<fnVars, batchVars>>

\* reader: f.Read gives another error; return it
ReaderReadFail ==
    /\ ~crashed /\ rpc = "read"
    /\ rpc' = "failed" /\ readerErr' = "error reading file"
    /\ UNCHANGED <<pos, readLen, leftOver, sendBuf>>
    /\ UNCHANGED <<inputVars, workers, wg, statsChanClosed, aggVars, mainVars, crashed>>
    /\ UNCHANGED flightVars
    /\ UNCHANGED <<fnVars, batchVars>>

\* chunkChan <- sendBuf completing with no worker at its receive, as it would
\* on a channel with a buffer
SendWithoutReceiver ==
    /\ ~crashed /\ rpc = "send"
    /\ sendBuf' = <<>>
    /\ rpc' = "read"
    /\ UNCHANGED <<pos, readLen, leftOver, readerErr, wg, workers>>
    /\ UNCHANGED <<inputVars, statsChanClosed, aggVars, mainVars, crashed>>
    /\ UNCHANGED flightVars
    /\ UNCHANGED <<fnVars, batchVars>>

\* chunkChan <- sendBuf meets a worker's receive: chunkChan has no buffer
HandOff ==
    /\ ~crashed /\ rpc = "send"
    /\ \E u \in BagToSet(workers) :
        /\ u.pc = "recv"
        /\ workers' = Replace(workers, u, [u EXCEPT !.pc = "work", !.chunk = sendBuf])
    /\ sendBuf' = <<>>
    /\ rpc' = "read"
    /\ UNCHANGED <<pos, readLen, leftOver, readerErr, wg>>
    /\ UNCHANGED <<inputVars, statsChanClosed, aggVars, mainVars, crashed>>
    /\ UNCHANGED flightVars
    /\ UNCHANGED <<fnVars, batchVars>>

\* a worker has received a chunk and is in the body of its loop
WorkerBusy == ~crashed /\ \E u \in BagToSet(workers) : u.pc = "work"

\* a worker: the loop over the bytes of its chunk
WorkerProcess ==
    /\ WorkerBusy
    /\ \E u \in BagToSet(workers) :
        /\ u.pc = "work"
        /\ LET r == ProcessChunk(u.chunk, u.stats)
           IN  /\ crashed' = r.panic
               /\ workers' = Replace(workers, u,
                                 [pc |-> "recv", chunk |-> <<>>, stats |-> r.stats])
    /\ UNCHANGED <<wg, inputVars, readerVars, statsChanClosed, aggVars, mainVars>>
    /\ finished' = finished + 1 /\ produced' = produced
    /\ UNCHANGED <<fnVars, batchVars>>

\* a worker sending its table while chunks can still come
PublishEarly ==
    /\ ~crashed /\ apc = "recv" /\ ~statsChanClosed
    /\ \E u \in BagToSet(workers) :
        /\ u.pc = "recv"
        /\ workers' = Replace(workers, u, [u EXCEPT !.pc = "sent"])
        /\ partialStats' = u.stats
    /\ apc' = "merge"
    /\ UNCHANGED <<stats, stations, wg>>
    /\ UNCHANGED <<inputVars, readerVars, statsChanClosed, mainVars, crashed>>
    /\ UNCHANGED flightVars
    /\ UNCHANGED <<fnVars, batchVars>>

\* A worker: range chunkChan ends, the channel being closed, and statsChan <-
\* stats meets the aggregator's receive.
Publish ==
    /\ ~crashed /\ rpc = "closed" /\ apc = "recv" /\ ~statsChanClosed
    /\ \E u \in BagToSet(workers) :
        /\ u.pc = "recv"
        /\ workers' = Replace(workers, u, [u EXCEPT !.pc = "sent"])
        /\ partialStats' = u.stats
    /\ apc' = "merge"
    /\ UNCHANGED <<stats, stations, wg>>
    /\ UNCHANGED <<inputVars, readerVars, statsChanClosed, mainVars, crashed>>
    /\ UNCHANGED flightVars
    /\ UNCHANGED <<fnVars, batchVars>>

\* a worker returning with no wg.Done
ReturnWithoutDone ==
    /\ ~crashed
    /\ \E u \in BagToSet(workers) :
        /\ u.pc = "sent"
        /\ workers' = Replace(workers, u, [u EXCEPT !.pc = "done"])
    /\ UNCHANGED <<wg, inputVars, readerVars, statsChanClosed, aggVars, mainVars, crashed>>
    /\ UNCHANGED flightVars
    /\ UNCHANGED <<fnVars, batchVars>>

\* a worker: return nil, and the deferred wg.Done runs
WorkerDone ==
    /\ ~crashed
    /\ \E u \in BagToSet(workers) :
        /\ u.pc = "sent"
        /\ workers' = Replace(workers, u, [u EXCEPT !.pc = "done"])
    /\ wg' = wg - 1
    /\ UNCHANGED <<inputVars, readerVars, statsChanClosed, aggVars, mainVars, crashed>>
    /\ UNCHANGED flightVars
    /\ UNCHANGED <<fnVars, batchVars>>

\* aggregator: the loop over the keys of partialStats, visited in any order
AggregatorMerge ==
    /\ ~crashed /\ apc = "merge"
    /\ stats' = Merge(stats, partialStats)
    /\ \E order \in Orders(DOMAIN partialStats \ DOMAIN stats) :
           stations' = stations \o order
    /\ partialStats' = EmptyStats
    /\ apc' = "recv"
    /\ UNCHANGED <<inputVars, readerVars, workers, wg, statsChanClosed, mainVars, crashed>>
    /\ UNCHANGED flightVars
    /\ UNCHANGED <<fnVars, batchVars>>

\* readStats closing statsChan without waiting for the workers
CloseWithoutWait ==
    /\ ~crashed /\ mpc = "wait"
    /\ statsChanClosed' = TRUE
    /\ mpc' = "result"
    /\ UNCHANGED <<ss, err, output>>
    /\ UNCHANGED <<inputVars, readerVars, workers, wg, aggVars, crashed>>
    /\ UNCHANGED flightVars
    /\ UNCHANGED <<fnVars, batchVars>>

\* readStats: wg.Wait returns; close(statsChan)
WaitClose ==
    /\ ~crashed /\ mpc = "wait" /\ wg = 0
    /\ statsChanClosed' = TRUE
    /\ mpc' = "result"
    /\ UNCHANGED <<ss, err, output>>
    /\ UNCHANGED <<inputVars, readerVars, workers, wg, aggVars, crashed>>
    /\ UNCHANGED flightVars
    /\ UNCHANGED <<fnVars, batchVars>>

\* aggregator: range statsChan ends; sort.Strings(stations)
AggregatorSort ==
    /\ ~crashed /\ apc = "recv" /\ statsChanClosed
    /\ stations' = SortStrings(stations)
    /\ apc' = "result"
    /\ UNCHANGED <<stats, partialStats, inputVars, readerVars, workers, wg, statsChanClosed, mainVars, crashed>>
    /\ UNCHANGED flightVars
    /\ UNCHANGED <<fnVars, batchVars>>

\* resultChan <- stationStats{stats, stations} meets readStats' receive;
\* readStats returns the value and a nil error
Return ==
    /\ ~crashed /\ apc = "result" /\ mpc = "result"
    /\ ss' = [stats |-> stats, stations |-> stations]
    /\ err' = "nil"
    /\ apc' = "done"
    /\ mpc' = "returned"
    /\ UNCHANGED <<output, stats, stations, partialStats>>
    /\ UNCHANGED <<inputVars, readerVars, workers, wg, statsChanClosed, crashed>>
    /\ UNCHANGED flightVars
    /\ UNCHANGED <<fnVars, batchVars>>

\* eval has the result of readStats and no error
EvalReady == ~crashed /\ mpc = "returned" /\ err = "nil"

\* eval: err is nil, format(ss, w)
Eval ==
    /\ EvalReady
    /\ output' = format(ss)
    /\ mpc' = "exit"
    /\ UNCHANGED <<ss, err>>
    /\ UNCHANGED <<inputVars, readerVars, workers, wg, statsChanClosed, aggVars, crashed>>
    /\ UNCHANGED flightVars
    /\ UNCHANGED <<fnVars, batchVars>>

Next ==
    \/ ReaderOpen
    \/ ReaderRead
    \/ ReaderEOF
    \/ ReaderReadFail
    \/ HandOff
    \/ WorkerProcess
    \/ Publish
    \/ WorkerDone
    \/ AggregatorMerge
    \/ WaitClose
    \/ AggregatorSort
    \/ Return
    \/ Eval

Spec == Init /\ [][Next]_vars

(***************************************************************************)
(* parseFloat alone, called on each string of the grammar of values: an    *)
(* optional '-', one or two digits, '.', one digit.                        *)
(***************************************************************************)
DigitBytes == {Zero + d : d \in 0..9}
ValueStrings ==
    {sign \o int \o <<46, frac>> :
        sign \in {<<>>, <<Minus>>},
        int \in {<<d>> : d \in DigitBytes} \cup (DigitBytes \X DigitBytes),
        frac \in DigitBytes}

\* no pipeline has been started
PipelineIdle ==
    /\ file = <<>> /\ chunkSize = 0 /\ jobs = 0
    /\ rpc = "idle" /\ pos = 0 /\ readLen = 0
    /\ leftOver = <<>> /\ sendBuf = <<>> /\ readerErr = "nil"
    /\ workers = EmptyBag /\ wg = 0 /\ statsChanClosed = FALSE
    /\ apc = "idle" /\ partialStats = EmptyStats /\ stats = EmptyStats /\ stations = <<>>
    /\ mpc = "idle" /\ ss = NoResult /\ err = "nil" /\ output = <<>>
    /\ crashed = FALSE
    /\ produced = 0 /\ finished = 0

FnInit ==
    /\ arg \in ValueStrings /\ ret = NoFloat /\ fpc = "call"
    /\ PipelineIdle /\ BatchIdle

\* the call parseFloat(s): it returns, or panics on an index out of range
CallParseFloat ==
    /\ fpc = "call"
    /\ IF parseFloatPanics(arg)
       THEN fpc' = "panic" /\ ret' = ret
       ELSE fpc' = "ret" /\ ret' = parseFloat(arg)
    /\ UNCHANGED <<arg, batchVars, flightVars, crashed>>
    /\ UNCHANGED <<inputVars, readerVars, workers, wg, statsChanClosed, aggVars, mainVars>>

FnNext == CallParseFloat

FnSpec == FnInit /\ [][FnNext]_vars

(***************************************************************************)
(* What the file says, read independently of the program: its lines, and   *)
(* for a well-formed file the exact statistics, in tenths.                 *)
(***************************************************************************)
Terminated(f) == f = <<>> \/ f[Len(f)] = NL

\* the lines of f without their newlines, a last unterminated line included
RECURSIVE LinesOf(_)
LinesOf(f) ==
    IF f = <<>> THEN <<>>
    ELSE LET S == {i \in 1..Len(f) : f[i] = NL}
         IN  IF S = {} THEN <<f>>
             ELSE LET i == CHOOSE i \in S : \A j \in S : i <= j
                  IN  <<SubSeq(f, 1, i - 1)>> \o LinesOf(SubSeq(f, i + 1, Len(f)))

IsDigit(b) == b >= 48 /\ b <= 57

\* -?D{1,2}.D
InGrammar(v) ==
    LET t == IF v # <<>> /\ v[1] = 45 THEN Tail(v) ELSE v
    IN  \/ Len(t) = 3 /\ IsDigit(t[1]) /\ t[2] = 46 /\ IsDigit(t[3])
        \/ Len(t) = 4 /\ IsDigit(t[1]) /\ IsDigit(t[2]) /\ t[3] = 46 /\ IsDigit(t[4])

HasDelimiter(l) == \E i \in 1..Len(l) : l[i] = 59
FirstDelimiter(l) == CHOOSE i \in 1..Len(l) : l[i] = 59 /\ \A j \in 1..(i - 1) : l[j] # 59
KeyOf(l) == SubSeq(l, 1, FirstDelimiter(l) - 1)
ValueOf(l) == SubSeq(l, FirstDelimiter(l) + 1, Len(l))
WellFormedLine(l) == HasDelimiter(l) /\ InGrammar(ValueOf(l))
WellFormed(f) == \A i \in 1..Len(LinesOf(f)) : WellFormedLine(LinesOf(f)[i])

\* the value of a line of the grammar, in tenths
TenthsOf(l) ==
    LET v == ValueOf(l)
        t == IF v[1] = 45 THEN Tail(v) ELSE v
        m == IF Len(t) = 3 THEN (t[1] - 48) * 10 + (t[3] - 48)
             ELSE (t[1] - 48) * 100 + (t[2] - 48) * 10 + (t[4] - 48)
    IN  IF v[1] = 45 THEN 0 - m ELSE m

\* every line, with its newline, fits the read buffer
FitsChunk(f, size) == \A i \in 1..Len(LinesOf(f)) : Len(LinesOf(f)[i]) + 1 <= size

KeysOf(f) == {KeyOf(LinesOf(f)[i]) : i \in 1..Len(LinesOf(f))}
ValuesOf(f, k) == LET ls == LinesOf(f) IN {i \in 1..Len(ls) : KeyOf(ls[i]) = k}

RECURSIVE SumTenths(_, _)
SumTenths(ls, I) ==
    IF I = {} THEN 0
    ELSE LET i == CHOOSE i \in I : TRUE IN TenthsOf(ls[i]) + SumTenths(ls, I \ {i})

\* the float64 nearest to t tenths
FromTenths(t) == FDivSmall(FromInt(t), 10)

\* the statistics of a well-formed file
Expected(f) ==
    [k \in KeysOf(f) |->
        LET ls == LinesOf(f)
            I  == ValuesOf(f, k)
        IN  [count |-> Cardinality(I),
             sum   |-> FromTenths(SumTenths(ls, I)),
             min   |-> FromTenths(CHOOSE t \in {TenthsOf(ls[i]) : i \in I} :
                                     \A i \in I : t <= TenthsOf(ls[i])),
             max   |-> FromTenths(CHOOSE t \in {TenthsOf(ls[i]) : i \in I} :
                                     \A i \in I : t >= TenthsOf(ls[i]))]]

Returned == mpc \in {"returned", "exit"}

(***************************************************************************)
(* C1.  For a file of well-formed, newline-terminated records no longer    *)
(* than the chunk size, the table readStats returns has exactly the keys   *)
(* of the file and, for each key, the number of its lines as count, the    *)
(* sum of their values as sum, their minimum as min and their maximum as   *)
(* max, whatever the interleaving.                                         *)
(***************************************************************************)
C1_ExactStatistics ==
    (Returned /\ WellFormed(file) /\ Terminated(file) /\ FitsChunk(file, chunkSize))
        => ss.stats = Expected(file)

(***************************************************************************)
(* Reference runs: what the program computes under one fixed schedule.     *)
(***************************************************************************)
\* the chunks reader sends when no read fails
RECURSIVE ReaderChunks(_, _, _, _)
ReaderChunks(f, p, len, left) ==
    LET n   == NumBytesRead(f, p, len)
        buf == SubSeq(f, p + 1, p + n)
    IN  IF n = 0 THEN <<>>
        ELSE <<SendBuf(left, buf)>> \o ReaderChunks(f, p + n, n, LeftOver(buf))

Chunks(f, size) == ReaderChunks(f, 0, size, <<>>)

\* one worker's table after the chunks cs[i], i in I, taken in order from i on
RECURSIVE WorkerTable(_, _, _, _)
WorkerTable(cs, I, i, st) ==
    IF i > Len(cs) THEN st
    ELSE WorkerTable(cs, I, i + 1, IF i \in I THEN ProcessChunk(cs[i], st).stats ELSE st)

\* the aggregator's table after the tables ts, in that order
RECURSIVE MergeAll(_, _)
MergeAll(ts, st) == IF ts = <<>> THEN st ELSE MergeAll(Tail(ts), Merge(st, Head(ts)))

ResultOf(st) ==
    [stats |-> st, stations |-> SortStrings(CHOOSE q \in Orders(DOMAIN st) : TRUE)]

\* the whole file read as one chunk by one worker
OneChunkResult(f) == ResultOf(ProcessChunk(SendBuf(<<>>, f), EmptyStats).stats)

\* one worker taking every chunk
OneWorkerResult(f, size) ==
    ResultOf(WorkerTable(Chunks(f, size), 1..Len(Chunks(f, size)), 1, EmptyStats))

\* n workers taking the chunks in turn and publishing in turn
RoundRobinResult(f, size, n) ==
    LET cs == Chunks(f, size)
    IN  ResultOf(MergeAll(
            [j \in 1..n |->
                WorkerTable(cs, {i \in 1..Len(cs) : (i - 1) % n = j - 1}, 1, EmptyStats)],
            EmptyStats))

(***************************************************************************)
(* C2.  Every chunk reader sends on the chunk queue consists only of whole *)
(* newline-terminated lines of the file, for every file and every chunk    *)
(* size, reads without any newline included; stated here for the files    *)
(* that end in a newline.                                                  *)
(***************************************************************************)
C2_WholeLineChunks ==
    (rpc = "send" /\ Terminated(file)) =>
        LET e == pos - Len(leftOver)
            b == e - Len(sendBuf)
        IN  /\ sendBuf = SubSeq(file, b + 1, e)
            /\ b = 0 \/ file[b] = NL
            /\ e = b \/ file[e] = NL

(***************************************************************************)
(* C3.  Chunk-size invariance: for a well-formed file the result is the    *)
(* same for every chunk size, sizes below the longest line included; here  *)
(* with one worker, against the file read as a single chunk.               *)
(***************************************************************************)
C3_ChunkSizeInvariance ==
    (Returned /\ jobs = 1 /\ WellFormed(file)) => ss = OneChunkResult(file)

(***************************************************************************)
(* C4.  A final line without a trailing newline is in the result, once:    *)
(* the result has the keys and the counts of the file's records, the last  *)
(* one included.                                                           *)
(***************************************************************************)
C4_LastLineCounted ==
    (Returned /\ WellFormed(file) /\ ~Terminated(file) /\ FitsChunk(file, chunkSize))
        => /\ DOMAIN ss.stats = KeysOf(file)
           /\ \A k \in KeysOf(file) : ss.stats[k].count = Cardinality(ValuesOf(file, k))

(***************************************************************************)
(* C5.  A file with a line that lacks the delimiter, or whose value is     *)
(* outside the grammar, makes the run fail: format is never invoked and    *)
(* nothing is written; stated here for the files that end in a newline.    *)
(***************************************************************************)
C5_MalformedLineFails ==
    (~WellFormed(file) /\ Terminated(file)) => (mpc # "exit" /\ output = <<>>)

(***************************************************************************)
(* C6.  When reader cannot open the file or a read fails, readStats        *)
(* returns a non-nil error to eval and nothing is written: once the        *)
(* pipeline has come to rest after the failure, it has done so.            *)
(***************************************************************************)
C6_ReaderErrorPropagates ==
    /\ rpc = "failed" => output = <<>>
    /\ (rpc = "failed" /\ ~crashed /\ ~ENABLED Next) => (Returned /\ err # "nil")

(* The goroutines of a run have all returned. *)
Ended ==
    /\ rpc \in {"closed", "failed"}
    /\ \A u \in BagToSet(workers) : u.pc = "done"
    /\ apc = "done"
    /\ Returned

(***************************************************************************)
(* C7.  After reader has failed no goroutine stays blocked for ever: as    *)
(* long as one of reader, the workers, aggregator and readStats has not    *)
(* ended, a step is possible.                                              *)
(***************************************************************************)
C7_NoGoroutineLeftBlocked ==
    (rpc = "failed" /\ ~crashed) => (Ended \/ ENABLED Next)

(***************************************************************************)
(* C8.  Worker-count invariance: for a well-formed file the result with    *)
(* any number of workers is the result with one worker.                    *)
(***************************************************************************)
C8_WorkerCountInvariance ==
    (Returned /\ WellFormed(file) /\ Terminated(file) /\ FitsChunk(file, chunkSize))
        => ss = OneWorkerResult(file, chunkSize)

(***************************************************************************)
(* C9.  Determinism: for a fixed file, chunk size and worker count every   *)
(* schedule writes the same output, the one of the schedule in which the   *)
(* workers take the chunks in turn.                                        *)
(***************************************************************************)
C9_Determinism ==
    (mpc = "exit" /\ WellFormed(file) /\ Terminated(file) /\ FitsChunk(file, chunkSize))
        => output = format(RoundRobinResult(file, chunkSize, jobs))

(* The orders in which the workers' published tables can be received. *)
PublishedOrders ==
    {q \in [1..jobs -> BagToSet(workers)] :
        \A u \in BagToSet(workers) :
            Cardinality({i \in 1..jobs : q[i] = u}) = CopiesIn(u, workers)}

(***************************************************************************)
(* C10.  Merge commutativity: the tables the workers published, reduced in *)
(* any order, give the table the aggregator has.                           *)
(***************************************************************************)
C10_MergeCommutes ==
    apc \in {"result", "done"} =>
        \A q \in PublishedOrders :
            MergeAll([i \in 1..jobs |-> q[i].stats], EmptyStats) = stats

\* a is before b in byte-wise lexicographic order
BytesBefore(a, b) ==
    \/ Len(a) < Len(b) /\ a = SubSeq(b, 1, Len(a))
    \/ \E i \in 1..Len(a) :
          /\ i <= Len(b)
          /\ SubSeq(a, 1, i - 1) = SubSeq(b, 1, i - 1)
          /\ a[i] < b[i]

\* The keys of an output text from byte i on: a key runs from start to the
\* next '=', and the next key begins after ", ".
RECURSIVE KeysFrom(_, _, _, _)
KeysFrom(o, i, start, inKey) ==
    IF i > Len(o) \/ o[i] = 125 THEN <<>>
    ELSE IF inKey /\ o[i] = 61
         THEN <<SubSeq(o, start, i - 1)>> \o KeysFrom(o, i + 1, i + 1, FALSE)
    ELSE IF ~inKey /\ o[i] = 44
         THEN KeysFrom(o, i + 2, i + 2, TRUE)
    ELSE KeysFrom(o, i + 1, start, inKey)

OutputKeys(o) == KeysFrom(o, 2, 2, TRUE)

(***************************************************************************)
(* C11.  The key list readStats returns has every key of the table exactly *)
(* once, in ascending byte-wise order, whatever the order in which the     *)
(* tables arrived; the output is "{", the entries of the keys in that      *)
(* order separated by ", ", "}" and a newline.                             *)
(***************************************************************************)
C11_SortedKeys ==
    /\ Returned =>
          /\ \A i \in 1..(Len(ss.stations) - 1) :
                 BytesBefore(ss.stations[i], ss.stations[i + 1])
          /\ {ss.stations[i] : i \in 1..Len(ss.stations)} = DOMAIN ss.stats
    /\ mpc = "exit" =>
          /\ Len(output) >= 3
          /\ output[1] = 123
          /\ SubSeq(output, Len(output) - 1, Len(output)) = <<125, 10>>
          /\ OutputKeys(output) = ss.stations

\* a run has written two keys, of which b came in a table of its own
C11_Witness ==
    /\ mpc = "exit"
    /\ ss.stations = << <<97>>, <<98>> >>
    /\ \E u \in BagToSet(workers) : DOMAIN u.stats = {<<98>>}

\* the number of records under key k in the table of worker u
CountIn(u, k) == IF k \in DOMAIN u.stats THEN u.stats[k].count ELSE 0

\* the number of records under key k in the tables of the workers in S
RECURSIVE PublishedCount(_, _)
PublishedCount(S, k) ==
    IF S = {} THEN 0
    ELSE LET u == CHOOSE u \in S : TRUE
         IN  CopiesIn(u, workers) * CountIn(u, k) + PublishedCount(S \ {u}, k)

Sent == {u \in BagToSet(workers) : u.pc \in {"sent", "done"}}

RECURSIVE TablesOf(_)
TablesOf(S) ==
    IF S = {} THEN EmptyBag
    ELSE LET u == CHOOSE u \in S : TRUE
         IN  [t \in {u.stats} |-> CopiesIn(u, workers)] (+) TablesOf(S \ {u})

PublishedTables == TablesOf(Sent)

Mean(v) == round(FDivSmall(v.sum, v.count))

(***************************************************************************)
(* C14.  For every key of the result min <= mean <= max, the mean being    *)
(* the value format prints, ceil((sum/count)*10)/10, and count >= 1; here  *)
(* for the well-formed, newline-terminated files whose lines fit the read  *)
(* buffer.                                                                 *)
(***************************************************************************)
C14_MeanWithinMinMax ==
    (Returned /\ WellFormed(file) /\ Terminated(file) /\ FitsChunk(file, chunkSize))
        => \A k \in DOMAIN ss.stats :
              /\ ss.stats[k].count >= 1
              /\ ~FLess(Mean(ss.stats[k]), ss.stats[k].min)
              /\ ~FLess(ss.stats[k].max, Mean(ss.stats[k]))

\* a float64 as a signed number of tenths, as %.1f shows it
SignedTenths(x) == IF x.neg THEN 0 - Tenths(x) ELSE Tenths(x)

\* the least integer not below n / d, for d > 0
CeilDiv(n, d) == 0 - ((0 - n) \div d)

(***************************************************************************)
(* C15.  The mean format prints is sum/count rounded up to one decimal:    *)
(* in tenths, the ceiling of the sum of the key's values in tenths over    *)
(* their number, for positive and negative means alike.                    *)
(***************************************************************************)
C15_CeilingMean ==
    (Returned /\ WellFormed(file) /\ Terminated(file) /\ FitsChunk(file, chunkSize))
        => \A k \in DOMAIN ss.stats :
              SignedTenths(Mean(ss.stats[k]))
                  = CeilDiv(SumTenths(LinesOf(file), ValuesOf(file, k)),
                            Cardinality(ValuesOf(file, k)))

\* the number of workers in the body of their loop, each holding one chunk
Busy == BagCardinality([u \in {v \in BagToSet(workers) : v.pc = "work"} |-> CopiesIn(u, workers)])

(***************************************************************************)
(* C16.  Backpressure: the chunks reader has made and no worker has        *)
(* finished are the one reader is sending, if any, and one for each worker *)
(* in its loop body; so they are never more than the number of workers     *)
(* plus one.                                                               *)
(***************************************************************************)
C16_Backpressure ==
    /\ produced - finished = (IF rpc = "send" THEN 1 ELSE 0) + Busy
    /\ produced - finished <= jobs + 1

\* two workers hold a chunk each and reader is sending a third
C16_Witness == jobs = 2 /\ produced - finished = 3 /\ rpc = "send"

\* the steps other than a worker's loop body and eval's call of format
Handover ==
    \/ ReaderOpen \/ ReaderRead \/ ReaderEOF \/ ReaderReadFail \/ HandOff
    \/ Publish \/ WorkerDone \/ AggregatorMerge \/ WaitClose \/ AggregatorSort
    \/ Return

\* The runs on the well-formed files under the Go scheduler, which runs every
\* goroutine that can run: a run does not stop while a step is possible.  The
\* last two conjuncts are WF_vars(WorkerProcess) and WF_vars(Eval) written out:
\* WorkerBusy and EvalReady are what enables these two steps.
LiveInit == Init /\ WellFormed(file)
LiveSpec ==
    /\ LiveInit /\ [][Next]_vars
    /\ WF_vars(Handover)
    /\ ([]<>~WorkerBusy \/ []<><<WorkerProcess>>_vars)
    /\ ([]<>~EvalReady \/ []<><<Eval>>_vars)

(***************************************************************************)
(* C17.  Termination: for a well-formed file, the empty one included, and  *)
(* every worker count, unless os.Open or a Read fails, a fairly scheduled  *)
(* run ends: reader has closed chunkChan, every worker has published and   *)
(* returned, aggregator has sent the result, readStats has returned and    *)
(* eval has written the output.                                            *)
(***************************************************************************)
C17_Terminates == <>(rpc = "failed" \/ (Ended /\ mpc = "exit"))

\* a run with three workers and three chunks has ended
C17_Witness ==
    /\ Ended /\ mpc = "exit"
    /\ WellFormed(file) /\ jobs = 3 /\ finished >= 3

\* the number of tenths a string of the grammar denotes
ValueTenths(v) ==
    LET t == IF v[1] = 45 THEN Tail(v) ELSE v
        m == IF Len(t) = 3 THEN (t[1] - 48) * 10 + (t[3] - 48)
             ELSE (t[1] - 48) * 100 + (t[2] - 48) * 10 + (t[4] - 48)
    IN  IF v[1] = 45 THEN 0 - m ELSE m

\* x and y are the same number (-0 and +0 are)
FEq(x, y) == MagEq(x, y) /\ (x.neg = y.neg \/ MagZero(x))

(***************************************************************************)
(* C18.  For every string of the grammar parseFloat returns the value the  *)
(* string denotes: the float64 nearest to sign * (10 * integer part +      *)
(* fractional digit) tenths, with and without the sign, with one and with  *)
(* two integer digits.                                                     *)
(***************************************************************************)
C18_ParseFloatExact ==
    fpc # "call" => (fpc = "ret" /\ FEq(ret, FromTenths(ValueTenths(arg))))

\* parseFloat has returned for "-12.3"
C18_Witness == fpc = "ret" /\ arg = <<45, 49, 50, 46, 51>> /\ ret.neg

(***************************************************************************)
(* main.go: the pipeline of line batches.  readStats itself reads the file *)
(* line by line into batch and sends batch to the workers when it is full; *)
(* the aggregator is started after the last send.  batch is a slice of one *)
(* array for the whole run: batch = batch[:0] keeps the array, and every   *)
(* slice sent on linesChan shares it.  BatchSize stands for batchSize.     *)
(***************************************************************************)
\* the input files: lines of the grammar and at most one line with no ';'
BatchFiles ==
    {f \in Files : \A i \in 1..Len(LinesOf(f)) : LinesOf(f)[i] # <<97, 59, 49>>}

IsSpace(b) == b \in {9, 10, 11, 12, 13, 32}

\* strings.TrimSpace
RECURSIVE TrimSpace(_)
TrimSpace(str) ==
    IF str = <<>> THEN str
    ELSE IF IsSpace(str[1]) THEN TrimSpace(Tail(str))
    ELSE IF IsSpace(str[Len(str)]) THEN TrimSpace(SubSeq(str, 1, Len(str) - 1))
    ELSE str

\* the place of the first newline after offset o, 0 if there is none
NextNewline(f, o) ==
    IF \E i \in (o + 1)..Len(f) : f[i] = NL
    THEN CHOOSE i \in (o + 1)..Len(f) : f[i] = NL /\ \A j \in (o + 1)..(i - 1) : f[j] # NL
    ELSE 0

\* strconv.ParseFloat on the strings the model passes to it, which are of
\* the form -?D{1,2}.D or have no digit at all: the nearest float64, or an
\* error
ParseFloat(v) ==
    IF InGrammar(v) THEN [err |-> "nil", temp |-> FromTenths(ValueTenths(v))]
    ELSE [err |-> "parse float error", temp |-> NoFloat]

parseLine(str) ==
    IF ~HasDelimiter(str)
    THEN [station |-> <<>>, temp |-> NoFloat, err |-> "missing delimiter"]
    ELSE LET i == FirstDelimiter(str)
             r == ParseFloat(SubSeq(str, i + 1, Len(str)))
         IN  IF r.err # "nil"
             THEN [station |-> <<>>, temp |-> NoFloat, err |-> r.err]
             ELSE [station |-> SubSeq(str, 1, i - 1), temp |-> r.temp, err |-> "nil"]

\* the variables of the other program
chunkVars == <<chunkSize, jobs, readerVars, workers, crashed, flightVars, fnVars>>

ChunkIdle ==
    /\ chunkSize = 0 /\ jobs = 0
    /\ rpc = "idle" /\ pos = 0 /\ readLen = 0
    /\ leftOver = <<>> /\ sendBuf = <<>> /\ readerErr = "nil"
    /\ workers = EmptyBag /\ crashed = FALSE
    /\ produced = 0 /\ finished = 0

\* readStats has been called
BatchInit ==
    /\ file \in BatchFiles
    /\ numCPU \in 1..MaxCPU
    /\ mpc = "open" /\ off = 0 /\ batch = 0
    /\ backing = [j \in 1..BatchSize |-> <<>>]
    /\ lineWorkers = EmptyBag /\ wg = 0 /\ statsChanClosed = FALSE
    /\ apc = "idle" /\ partialStats = EmptyStats /\ stats = EmptyStats /\ stations = <<>>
    /\ ss = NoResult /\ err = "nil" /\ output = <<>>
    /\ ChunkIdle /\ FnIdle

\* readStats: os.Open fails and log.Fatal ends the process, or the workers
\* are started, runtime.NumCPU()-1 of them
LineOpen ==
    /\ mpc = "open"
    /\ \/ mpc' = "fatal" /\ UNCHANGED <<lineWorkers, wg>>
       \/ /\ mpc' = "loop"
          /\ wg' = numCPU - 1
          /\ lineWorkers' =
                 [u \in {w \in {[pc |-> "recv", n |-> 0, i |-> 0, received |-> <<>>,
                                  stats |-> EmptyStats]} : numCPU > 1} |-> numCPU - 1]
    /\ UNCHANGED <<file, numCPU, off, batch, backing, statsChanClosed, aggVars, ss, err, output>>
    /\ UNCHANGED chunkVars

\* readStats: ReadString gives a line; it is appended to batch
ReadLine ==
    /\ mpc = "loop"
    /\ NextNewline(file, off) # 0
    /\ LET e == NextNewline(file, off)
       IN  /\ off' = e
           /\ backing' = [backing EXCEPT ![batch + 1] = TrimSpace(SubSeq(file, off + 1, e))]
    /\ batch' = batch + 1
    /\ mpc' = IF batch + 1 >= BatchSize THEN "send" ELSE "loop"
    /\ UNCHANGED <<file, numCPU, lineWorkers, wg, statsChanClosed, aggVars, ss, err, output>>
    /\ UNCHANGED chunkVars

\* readStats: ReadString gives io.EOF, with or without bytes; break
ReadEOF ==
    /\ mpc = "loop"
    /\ NextNewline(file, off) = 0
    /\ off' = Len(file)
    /\ mpc' = IF batch > 0 THEN "last" ELSE "close"
    /\ UNCHANGED <<file, numCPU, batch, backing, lineWorkers, wg, statsChanClosed, aggVars,
                   ss, err, output>>
    /\ UNCHANGED chunkVars

\* readStats: ReadString gives another error; return it
ReadLineFail ==
    /\ mpc = "loop"
    /\ mpc' = "returned"
    /\ err' = "error reading line"
    /\ UNCHANGED <<file, numCPU, off, batch, backing, lineWorkers, wg, statsChanClosed,
                   aggVars, ss, output>>
    /\ UNCHANGED chunkVars

\* linesChan <- batch meets a worker's receive; in the loop, batch = batch[:0]
SendBatch ==
    /\ mpc \in {"send", "last"}
    /\ \E u \in BagToSet(lineWorkers) :
        /\ u.pc = "recv"
        /\ lineWorkers' = Replace(lineWorkers, u,
               [u EXCEPT !.pc = "work", !.n = batch, !.i = 1,
                         !.received = SubSeq(backing, 1, batch)])
    /\ batch' = IF mpc = "send" THEN 0 ELSE batch
    /\ mpc' = IF mpc = "send" THEN "loop" ELSE "close"
    /\ UNCHANGED <<file, numCPU, off, backing, wg, statsChanClosed, aggVars, ss, err, output>>
    /\ UNCHANGED chunkVars

\* readStats: close(linesChan), and the aggregator is started
CloseLines ==
    /\ mpc = "close"
    /\ mpc' = "wait"
    /\ apc' = "recv"
    /\ UNCHANGED <<file, numCPU, off, batch, backing, lineWorkers, wg, statsChanClosed,
                   partialStats, stats, stations, ss, err, output>>
    /\ UNCHANGED chunkVars

\* A worker: one turn of for _, line := range lines.  The line is read from
\* the array as it is now.  A parse error makes the worker return, and its
\* deferred wg.Done runs.
LineWorkerStep ==
    /\ \E u \in BagToSet(lineWorkers) :
        /\ u.pc = "work"
        /\ LET r == parseLine(TrimSpace(backing[u.i]))
           IN  IF r.err # "nil"
               THEN /\ lineWorkers' = Replace(lineWorkers, u, [u EXCEPT !.pc = "failed"])
                    /\ wg' = wg - 1
               ELSE /\ lineWorkers' = Replace(lineWorkers, u,
                           [u EXCEPT !.stats = Update(u.stats, r.station, r.temp),
                                     !.i = u.i + 1,
                                     !.pc = IF u.i + 1 > u.n THEN "recv" ELSE "work"])
                    /\ wg' = wg
    /\ UNCHANGED <<file, numCPU, mpc, off, batch, backing, statsChanClosed, aggVars,
                   ss, err, output>>
    /\ UNCHANGED chunkVars

\* a worker: range linesChan ends, linesChan being closed, and statsChan <-
\* stats meets the aggregator's receive
LinePublish ==
    /\ apc = "recv" /\ ~statsChanClosed
    /\ \E u \in BagToSet(lineWorkers) :
        /\ u.pc = "recv"
        /\ lineWorkers' = Replace(lineWorkers, u, [u EXCEPT !.pc = "sent"])
        /\ partialStats' = u.stats
    /\ apc' = "merge"
    /\ UNCHANGED <<file, numCPU, mpc, off, batch, backing, wg, statsChanClosed,
                   stats, stations, ss, err, output>>
    /\ UNCHANGED chunkVars

\* a worker: return nil, and the deferred wg.Done runs
LineWorkerDone ==
    /\ \E u \in BagToSet(lineWorkers) :
        /\ u.pc = "sent"
        /\ lineWorkers' = Replace(lineWorkers, u, [u EXCEPT !.pc = "done"])
    /\ wg' = wg - 1
    /\ UNCHANGED <<file, numCPU, mpc, off, batch, backing, statsChanClosed, aggVars,
                   ss, err, output>>
    /\ UNCHANGED chunkVars

\* the aggregator, wg.Wait, the return and eval are those of the other program
LineAggregatorMerge == lineWorkers # EmptyBag /\ AggregatorMerge
LineWaitClose == mpc = "wait" /\ WaitClose
LineAggregatorSort == apc = "recv" /\ AggregatorSort
LineReturn == mpc = "result" /\ Return
LineEval == mpc = "returned" /\ Eval

\* eval: readStats returned an error; nothing is written
EvalError ==
    /\ mpc = "returned" /\ err # "nil"
    /\ mpc' = "exit"
    /\ UNCHANGED <<file, numCPU, off, batch, backing, lineWorkers, wg, statsChanClosed,
                   aggVars, ss, err, output>>
    /\ UNCHANGED chunkVars

BatchNext ==
    \/ LineOpen
    \/ ReadLine
    \/ ReadEOF
    \/ ReadLineFail
    \/ SendBatch
    \/ CloseLines
    \/ LineWorkerStep
    \/ LinePublish
    \/ LineWorkerDone
    \/ LineAggregatorMerge
    \/ LineWaitClose
    \/ LineAggregatorSort
    \/ LineReturn
    \/ LineEval
    \/ EvalError

BatchSpec == BatchInit /\ [][BatchNext]_vars

\* C19. A batch handed to a worker is immutable after the hand-off: the
\* lines a worker has still to read are the lines the batch held when the
\* worker received it, so that the worker never reads a line of a later
\* batch in their place.
C19_BatchImmutable ==
    \A u \in BagToSet(lineWorkers) :
        u.pc = "work" => \A j \in u.i..u.n : backing[j] = u.received[j]

\* C20. For every machine of at least one core and every non-empty
\* well-formed input, the worker pool is not empty: while readStats is at a
\* send on linesChan, a worker is receiving or will receive again, so that
\* the send does not block forever.
C20_PoolNeverEmpty ==
    (numCPU >= 1 /\ file # <<>> /\ WellFormed(file) /\ mpc \in {"send", "last"})
        => \E u \in BagToSet(lineWorkers) : u.pc \in {"recv", "work"}

====
